---- MODULE Spec2Model ----
(***************************************************************************)
(* A model of aws-profile (awsprofile/__init__.py).                        *)
(*                                                                         *)
(* Two specifications share this module:                                   *)
(*   Spec       one run of main(): parse_args, Session, configure_cache,   *)
(*              session_vars, then export lines or a child process.        *)
(*   CacheSpec  FixedJSONFileCache.__setitem__ run by two invocations of   *)
(*              the tool on one cache directory, one system call a step.   *)
(*                                                                         *)
(* Python values are records [t |-> type name, v |-> payload], so that     *)
(* None and a str are told apart.                                          *)
(***************************************************************************)
EXTENDS Integers, Sequences, FiniteSets, TLC

VARIABLES
    \* ---- main() ----
    pc,            \* position of main(): the statement to run next
    environ,       \* os.environ of the tool: name -> value
    args,          \* the argparse namespace (profile, command, export)
    session,       \* what the botocore session resolves to for the profile
    providerCache, \* class of the assume-role provider's cache
    credsResolved, \* session.get_credentials() has been called
    aws_vars,      \* result of session_vars(session)
    stdout,        \* lines printed so far
    children,      \* environments of the child processes started so far
    returncode,    \* what subprocess.call returned
    exitCode,      \* exit status of the tool
    log,           \* the calls main has made so far, in order
    \* ---- FixedJSONFileCache ----
    dirExists,     \* os.path.isdir(self._working_dir)
    files,         \* cache key -> file content (sequence of characters)
    w,             \* per writer: position in __setitem__ and its locals
    done,          \* number of __setitem__ calls made so far
    lastCall,      \* the latest __setitem__ call: writer, key and value
    lastWrite,     \* per cache key: value of the last call that completed, and
                   \* the length of the longest text a call wrote to it
    written,       \* per cache key: the texts the completed calls wrote
    touched        \* per cache key: the writers that have called __setitem__ on it

mainVars  == <<pc, environ, args, session, providerCache, credsResolved,
               aws_vars, stdout, children, returncode, exitCode, log>>
cacheVars == <<dirExists, files, w, done, lastCall, lastWrite, written, touched>>
vars      == <<mainVars, cacheVars>>

----------------------------------------------------------------------------
(* Python values *)

None     == [t |-> "NoneType", v |-> "None"]
Str(s)   == [t |-> "str", v |-> s]
IsStr(x) == x.t = "str"

\* str.format of a value: None prints as the text None
Format(x) == x.v

\* truth value of a str-or-None, as `if creds.token:` takes it
Truthy(x) == x.t = "str" /\ x.v # ""

\* dict.update: the right operand wins
Update(d, e) ==
    [n \in (DOMAIN d) \cup (DOMAIN e) |-> IF n \in DOMAIN e THEN e[n] ELSE d[n]]

\* dict.pop(key, None) on a copy
Pop(d, k) == [n \in (DOMAIN d) \ {k} |-> d[n]]

\* dict.get(key): None when the key is absent
Get(d, k) == IF k \in DOMAIN d THEN d[k] ELSE None

EmptyDict == [n \in {} |-> None]

----------------------------------------------------------------------------
(* Inputs of one run *)

\* the parent environments: profile variables set or not, a token type, a
\* region the session overrides, and a variable the tool never touches
Environs ==
    { Update(Update(Update(Update([n \in {"HOME"} |-> Str("/root")], p), dp), tt), r) :
        p  \in {EmptyDict, [n \in {"AWS_PROFILE"} |-> Str("dev")]},
        dp \in {EmptyDict, [n \in {"AWS_DEFAULT_PROFILE"} |-> Str("dev")]},
        tt \in {EmptyDict, [n \in {"AWS_TOKEN_TYPE"} |-> Str("security")],
                           [n \in {"AWS_TOKEN_TYPE"} |-> Str("session")]},
        r  \in {EmptyDict, [n \in {"AWS_REGION"} |-> Str("us-east-1")]} }

Profiles == {None, Str("dev")}
Commands == {<< >>, <<"env">>}

\* scoped config of the profile: with or without a region entry
ScopedConfigs == {EmptyDict, [n \in {"region"} |-> Str("eu-west-1")]}

\* credentials: permanent keys (token None or empty) or temporary ones
Credentials ==
    [access_key : {Str("AKIA")}, secret_key : {Str("s3cr3t")},
     token : {None, Str(""), Str("tok")}]

\* what subprocess.call can return: an exit status, or -signal
ReturnCodes == (0 .. 255) \cup {-9, -15}

----------------------------------------------------------------------------
(* main() *)

\* main with session_vars called before configure_cache
FlowVarsFirst == <<"parse_args", "Session", "session_vars", "configure_cache">>

\* the statements of main up to the branch on args.export, in program order
Flow == <<"parse_args", "Session", "configure_cache", "session_vars">>

\* the statement main runs after statement s
Succ(s) ==
    LET i == CHOOSE k \in 1 .. Len(Flow) : Flow[k] = s
    IN  IF i < Len(Flow) THEN Flow[i + 1]
        ELSE IF args.export THEN "export" ELSE "run"

\* args = parse_args(): argparse over sys.argv
ParseArgs ==
    /\ pc = "parse_args"
    /\ \E p \in Profiles, c \in Commands, e \in BOOLEAN :
          args' = [profile |-> p, command |-> c, export |-> e]
    /\ pc' = Succ("parse_args")
    /\ log' = Append(log, "parse_args")
    /\ UNCHANGED <<environ, session, providerCache, credsResolved, aws_vars,
                   stdout, children, returncode, exitCode, cacheVars>>

\* botocore.session.Session(profile=args.profile): nothing is resolved yet
MakeSession ==
    /\ pc = "Session"
    /\ \E cfg \in ScopedConfigs, cr \in Credentials :
          session' = [profile |-> args.profile, config |-> cfg, creds |-> cr]
    /\ providerCache' = "none"
    /\ pc' = Succ("Session")
    /\ log' = Append(log, "Session")
    /\ UNCHANGED <<environ, args, credsResolved, aws_vars, stdout, children,
                   returncode, exitCode, cacheVars>>

\* configure_cache(session)
configure_cache ==
    /\ pc = "configure_cache"
    /\ providerCache' = "FixedJSONFileCache"
    /\ pc' = Succ("configure_cache")
    /\ log' = Append(log, "configure_cache")
    /\ UNCHANGED <<environ, args, session, credsResolved, aws_vars, stdout,
                   children, returncode, exitCode, cacheVars>>

\* session_vars exporting the token under both names
vars_dictBothTokens(config, creds, env) ==
    LET base == [n \in {"AWS_DEFAULT_REGION", "AWS_REGION",
                        "AWS_ACCESS_KEY_ID", "AWS_SECRET_ACCESS_KEY"} |->
                    CASE n = "AWS_DEFAULT_REGION"    -> Get(config, "region")
                      [] n = "AWS_REGION"            -> Get(config, "region")
                      [] n = "AWS_ACCESS_KEY_ID"     -> creds.access_key
                      [] n = "AWS_SECRET_ACCESS_KEY" -> creds.secret_key]
    IN  IF Truthy(creds.token)
        THEN Update(base, [n \in {"AWS_SECURITY_TOKEN", "AWS_SESSION_TOKEN"} |->
                              creds.token])
        ELSE base

\* the dict session_vars builds from the scoped config, the credentials and
\* AWS_TOKEN_TYPE
vars_dict(config, creds, env) ==
    LET base == [n \in {"AWS_DEFAULT_REGION", "AWS_REGION",
                        "AWS_ACCESS_KEY_ID", "AWS_SECRET_ACCESS_KEY"} |->
                    CASE n = "AWS_DEFAULT_REGION"    -> Get(config, "region")
                      [] n = "AWS_REGION"            -> Get(config, "region")
                      [] n = "AWS_ACCESS_KEY_ID"     -> creds.access_key
                      [] n = "AWS_SECRET_ACCESS_KEY" -> creds.secret_key]
    IN  IF Truthy(creds.token)
        THEN IF Get(env, "AWS_TOKEN_TYPE") = Str("security")
             THEN Update(base, [n \in {"AWS_SECURITY_TOKEN"} |-> creds.token])
             ELSE Update(base, [n \in {"AWS_SESSION_TOKEN"} |-> creds.token])
        ELSE base

\* aws_vars = session_vars(session)
session_vars ==
    /\ pc = "session_vars"
    /\ credsResolved' = TRUE
    /\ aws_vars' = vars_dict(session.config, session.creds, environ)
    /\ pc' = Succ("session_vars")
    /\ log' = Append(log, "get_credentials")
    /\ UNCHANGED <<environ, args, session, providerCache, stdout, children,
                   returncode, exitCode, cacheVars>>

\* the order in which aws_vars.items() yields the keys (insertion order)
ItemsOrder == <<"AWS_DEFAULT_REGION", "AWS_REGION", "AWS_ACCESS_KEY_ID",
                "AWS_SECRET_ACCESS_KEY", "AWS_SECURITY_TOKEN", "AWS_SESSION_TOKEN">>

Items(d) == SelectSeq(ItemsOrder, LAMBDA n : n \in DOMAIN d)

\* 'export {var}={value};'.format(var=var, value=value)
ExportLine(var, value) == <<"export ", var, "=", Format(value), ";">>

\* the export branch of main, then the interpreter exits with status 0
Export ==
    /\ pc = "export"
    /\ stdout' = stdout \o << <<"unset AWS_DEFAULT_PROFILE;">>,
                              <<"unset AWS_PROFILE;">> >>
                        \o [i \in 1 .. Len(Items(aws_vars)) |->
                              ExportLine(Items(aws_vars)[i], aws_vars[Items(aws_vars)[i]])]
    /\ exitCode' = 0
    /\ pc' = "exited"
    /\ log' = Append(log, "print")
    /\ UNCHANGED <<environ, args, session, providerCache, credsResolved,
                   aws_vars, children, returncode, cacheVars>>

\* unset_profile(env) as its caller sees it: the function rebinds its
\* parameter to a fresh copy of os.environ, pops from the copy and returns
\* nothing, so the caller's dict is what it was
unset_profile(env) ==
    LET copy == Pop(Pop(environ, "AWS_DEFAULT_PROFILE"), "AWS_PROFILE")
    IN  env

\* main merging the other way round: a parent value wins over the session's
ChildEnvParentWins == Update(aws_vars, unset_profile(environ))

\* the environment main hands to subprocess.call
ChildEnv == Update(unset_profile(environ), aws_vars)

\* whether subprocess.call can start the child: the command has a program
\* and every value of the environment is a str (otherwise it raises)
CanSpawn(command, env) ==
    /\ command # << >>
    /\ \A n \in DOMAIN env : IsStr(env[n])

\* returncode = subprocess.call(args.command, env=env, ...)
Call ==
    /\ pc = "run"
    /\ IF CanSpawn(args.command, ChildEnv)
       THEN /\ children' = Append(children, ChildEnv)
            /\ log' = Append(log, "Popen")
            /\ \E rc \in ReturnCodes : returncode' = rc
            /\ pc' = "exit"
            /\ UNCHANGED exitCode
       ELSE \* IndexError or TypeError, uncaught: traceback and status 1
            /\ exitCode' = 1
            /\ pc' = "raised"
            /\ UNCHANGED <<children, returncode, log>>
    /\ UNCHANGED <<environ, args, session, providerCache, credsResolved,
                   aws_vars, stdout, cacheVars>>

\* os.WEXITSTATUS(status): bits 8..15 of a wait status
WEXITSTATUS(status) == (status \div 256) % 256

\* exit(os.WEXITSTATUS(returncode))
Exit ==
    /\ pc = "exit"
    /\ exitCode' = WEXITSTATUS(returncode)
    /\ pc' = "exited"
    /\ UNCHANGED <<environ, args, session, providerCache, credsResolved,
                   aws_vars, stdout, children, returncode, log, cacheVars>>

----------------------------------------------------------------------------
(* FixedJSONFileCache.__setitem__ *)

\* the invocations of the tool that share the cache directory
Writers == {1, 2}

\* calls of __setitem__ the invocations make in all
MaxCalls == 3

CacheKeys == {"k1", "k2"}

\* Text is a sequence of one-character strings
Quote == "\""

\* cached values: dicts of the kind the assume-role provider stores. A
\* dict is a sequence of <<key, value>> pairs; a datetime carries its
\* isoformat() text; [t |-> "ref"] is a reference back to the enclosing dict.
Dict(items)   == [t |-> "dict", v |-> items]
Datetime(iso) == [t |-> "datetime", v |-> iso]
Tuple(xs)     == [t |-> "tuple", v |-> xs]
SelfRef       == [t |-> "ref", v |-> << >>]

ShortValue    == Dict(<< <<Str(<<"a">>), Str(<<"x">>)>> >>)
LongValue     == Dict(<< <<Str(<<"a">>), Str(<<"x", "y", "z">>)>> >>)
DatedValue    == Dict(<< <<Str(<<"e">>), Datetime(<<"1", "T", "2">>)>> >>)
CircularValue == Dict(<< <<Str(<<"a">>), SelfRef>> >>)
BadKeyValue   == Dict(<< <<Tuple(<<"a">>), Str(<<"x">>)>> >>)

CacheValues == {ShortValue, LongValue, DatedValue, CircularValue, BadKeyValue}

\* outcome of a conversion: a text, or the exception raised
Ok(text)   == [ok |-> TRUE, text |-> text, exc |-> "none"]
Raise(exc) == [ok |-> FALSE, text |-> << >>, exc |-> exc]

\* awscli.utils.json_encoder, the default= of json.dumps, called for what
\* json cannot serialize itself: a datetime becomes its isoformat() text
json_encoder(x) == Str(x.v)

\* json.dumps(value, default=json_encoder)
RECURSIVE Dumps(_)
RECURSIVE DumpsItems(_, _)

DumpsItems(items, i) ==
    IF i > Len(items) THEN Ok(<< >>)
    ELSE LET k    == items[i][1]
             key  == IF IsStr(k) THEN Ok(<<Quote>> \o k.v \o <<Quote>>)
                     ELSE Raise("TypeError")   \* keys must be str, int, ...
             val  == Dumps(items[i][2])
             rest == DumpsItems(items, i + 1)
         IN  IF ~key.ok THEN key
             ELSE IF ~val.ok THEN val
             ELSE IF ~rest.ok THEN rest
             ELSE Ok(key.text \o <<":", " ">> \o val.text
                     \o (IF i < Len(items) THEN <<",", " ">> ELSE << >>)
                     \o rest.text)

Dumps(x) ==
    CASE x.t = "str"  -> Ok(<<Quote>> \o x.v \o <<Quote>>)
      [] x.t = "dict" -> LET inner == DumpsItems(x.v, 1)
                         IN  IF inner.ok THEN Ok(<<"{">> \o inner.text \o <<"}">>)
                             ELSE inner
      [] x.t = "ref"  -> Raise("ValueError")   \* Circular reference detected
      [] x.t = "datetime" -> Dumps(json_encoder(x))

\* lines 23-27: the text to store, or ValueError for TypeError and ValueError
file_content(value) ==
    IF Dumps(value).ok THEN Dumps(value) ELSE Raise("ValueError")

\* a writer outside __setitem__; exc is how its last call ended
Idle(exc) == [pc |-> "idle", key |-> "", value |-> None, sawDir |-> FALSE,
              pos |-> 0, buf |-> << >>, exc |-> exc]

InCall(p) == w[p].pc # "idle"

\* os.write of data at offset pos of a file holding content
WriteAt(content, pos, data) ==
    SubSeq(content, 1, pos) \o data
        \o SubSeq(content, pos + Len(data) + 1, Len(content))

\* a __setitem__ that opens the file before it serializes the value
SetItemFailsAfterOpen(p, k, v) ==
    /\ w' = [w EXCEPT ![p] = Idle(file_content(v).exc)]
    /\ dirExists' = TRUE
    /\ files' = Update(files, [n \in {k} |-> << >>])

\* lines 25-27: a value that does not serialize ends the call with
\* ValueError before the directory or the file is touched
SetItemFails(p, k, v) ==
    /\ w' = [w EXCEPT ![p] = Idle(file_content(v).exc)]
    /\ UNCHANGED <<dirExists, files>>

\* lines 22-27: the call starts, converts the key and serializes the value
SetItem(p, k, v) ==
    /\ ~InCall(p)
    /\ done < MaxCalls
    /\ done' = done + 1
    /\ touched' = [touched EXCEPT ![k] = @ \cup {p}]
    /\ lastCall' = [by |-> p, key |-> k, value |-> v]
    /\ IF file_content(v).ok
       THEN /\ w' = [w EXCEPT ![p] = [Idle("none") EXCEPT
                        !.pc = "isdir", !.key = k, !.value = v]]
            /\ UNCHANGED <<dirExists, files>>
       ELSE SetItemFails(p, k, v)
    /\ UNCHANGED <<lastWrite, written, mainVars>>

\* line 28: os.path.isdir(self._working_dir)
IsDir(p) ==
    /\ w[p].pc = "isdir"
    /\ w' = [w EXCEPT ![p].sawDir = dirExists,
                      ![p].pc = IF dirExists THEN "open" ELSE "makedirs"]
    /\ UNCHANGED <<dirExists, files, done, lastCall, lastWrite, written, touched, mainVars>>

\* line 29: os.makedirs raises OSError when the directory has appeared since
MakeDirs(p) ==
    /\ w[p].pc = "makedirs"
    /\ IF dirExists
       THEN /\ w' = [w EXCEPT ![p] = Idle("OSError")]
            /\ UNCHANGED dirExists
       ELSE /\ dirExists' = TRUE
            /\ w' = [w EXCEPT ![p].pc = "open"]
    /\ UNCHANGED <<files, done, lastCall, lastWrite, written, touched, mainVars>>

\* lines 30-31: os.open(full_key, O_WRONLY | O_CREAT, 0o600): the file is
\* created empty when absent and kept as it is otherwise; the offset is 0
Open(p) ==
    /\ w[p].pc = "open"
    /\ files' = IF w[p].key \in DOMAIN files THEN files
                ELSE Update(files, [n \in {w[p].key} |-> << >>])
    /\ w' = [w EXCEPT ![p].pc = "truncate", ![p].pos = 0]
    /\ UNCHANGED <<dirExists, done, lastCall, lastWrite, written, touched, mainVars>>

\* a __setitem__ without the truncate
TruncateSkipped(p) ==
    /\ w[p].pc = "truncate"
    /\ w' = [w EXCEPT ![p].pc = "write"]
    /\ UNCHANGED <<dirExists, files, done, lastCall, lastWrite, written, touched, mainVars>>

\* line 32: f.truncate() cuts the file at the current offset
Truncate(p) ==
    /\ w[p].pc = "truncate"
    /\ files' = [files EXCEPT ![w[p].key] = SubSeq(@, 1, w[p].pos)]
    /\ w' = [w EXCEPT ![p].pc = "write"]
    /\ UNCHANGED <<dirExists, done, lastCall, lastWrite, written, touched, mainVars>>

\* line 33: f.write(file_content) fills the buffer of f
Write(p) ==
    /\ w[p].pc = "write"
    /\ w' = [w EXCEPT ![p].pc = "close", ![p].buf = file_content(w[p].value).text]
    /\ UNCHANGED <<dirExists, files, done, lastCall, lastWrite, written, touched, mainVars>>

\* end of the with block: close flushes the buffer at the offset
Close(p) ==
    /\ w[p].pc = "close"
    /\ files' = [files EXCEPT ![w[p].key] = WriteAt(@, w[p].pos, w[p].buf)]
    /\ lastWrite' = [lastWrite EXCEPT ![w[p].key] =
                        [value   |-> w[p].value,
                         longest |-> IF Len(w[p].buf) > @.longest
                                     THEN Len(w[p].buf) ELSE @.longest]]
    /\ written' = [written EXCEPT ![w[p].key] = @ \cup {w[p].buf}]
    /\ w' = [w EXCEPT ![p] = Idle("none")]
    /\ UNCHANGED <<dirExists, done, lastCall, touched, mainVars>>

\* the cache directory as earlier runs can have left it: absent, empty, or
\* holding an entry
CacheInit ==
    /\ \/ dirExists = FALSE /\ files = EmptyDict
       \/ dirExists = TRUE  /\ files = EmptyDict
       \/ dirExists = TRUE  /\ files = [n \in {"k1"} |-> Dumps(LongValue).text]
    /\ w = [p \in Writers |-> Idle("none")]
    /\ done = 0
    /\ lastCall = [by |-> 0, key |-> "", value |-> None]
    /\ lastWrite = [k \in CacheKeys |-> [value |-> None, longest |-> 0]]
    /\ written = [k \in CacheKeys |-> {}]
    /\ touched = [k \in CacheKeys |-> {}]

MainInit ==
    /\ pc = "parse_args"
    /\ environ \in Environs
    /\ args = [profile |-> None, command |-> << >>, export |-> FALSE]
    /\ session = [profile |-> None, config |-> EmptyDict,
                  creds |-> [access_key |-> None, secret_key |-> None, token |-> None]]
    /\ providerCache = "none"
    /\ credsResolved = FALSE
    /\ aws_vars = EmptyDict
    /\ stdout = << >>
    /\ children = << >>
    /\ returncode = 0
    /\ exitCode = -1
    /\ log = << >>

Init == MainInit /\ CacheInit

Next ==
    \/ ParseArgs
    \/ MakeSession
    \/ configure_cache
    \/ session_vars
    \/ Export
    \/ Call
    \/ Exit

Spec == Init /\ [][Next]_vars

\* two invocations at work on the cache, each elsewhere in main
CacheSpecInit ==
    /\ MainInit
    /\ environ = [n \in {"HOME"} |-> Str("/root")]
    /\ CacheInit

CacheNext ==
    \E p \in Writers :
        \/ \E k \in CacheKeys, v \in CacheValues : SetItem(p, k, v)
        \/ IsDir(p)
        \/ MakeDirs(p)
        \/ Open(p)
        \/ Truncate(p)
        \/ Write(p)
        \/ Close(p)

CacheSpec == CacheSpecInit /\ [][CacheNext]_vars

----------------------------------------------------------------------------
(* Properties of main() *)

ProfileVars == {"AWS_PROFILE", "AWS_DEFAULT_PROFILE"}

Terminated == pc \in {"exited", "raised"}

\* C1: in run mode, the environment of the child command contains neither
\* AWS_PROFILE nor AWS_DEFAULT_PROFILE, whatever the parent environment.
C1_ChildEnvHasNoProfileVars ==
    \A i \in 1 .. Len(children) : DOMAIN children[i] \cap ProfileVars = {}

\* C2: in run mode the child's environment is the parent's with the session
\* variables merged in: every session_vars key is there with the session_vars
\* value, every other parent variable that is no profile variable is there
\* unchanged, and nothing else but parent and session variables is there.
C2_ChildEnvIsParentMergedWithSessionVars ==
    \A i \in 1 .. Len(children) :
        LET e == children[i]
        IN  /\ \A n \in DOMAIN aws_vars : n \in DOMAIN e /\ e[n] = aws_vars[n]
            /\ \A n \in (DOMAIN environ) \ ((DOMAIN aws_vars) \cup ProfileVars) :
                  n \in DOMAIN e /\ e[n] = environ[n]
            /\ DOMAIN e \subseteq (DOMAIN environ) \cup (DOMAIN aws_vars)

\* a child was started whose parent had its own AWS_REGION, which the
\* session's region replaced, and a variable the tool leaves alone
C2_Witness ==
    /\ Len(children) = 1
    /\ "AWS_REGION" \in DOMAIN environ
    /\ environ["AWS_REGION"] # aws_vars["AWS_REGION"]
    /\ children[1]["AWS_REGION"] = aws_vars["AWS_REGION"]
    /\ children[1]["HOME"] = environ["HOME"]

\* the lines the export branch is to print for aws_vars
ExpectedExportLines ==
    << <<"unset AWS_DEFAULT_PROFILE;">>, <<"unset AWS_PROFILE;">> >>
    \o [i \in 1 .. Len(Items(aws_vars)) |->
          <<"export ", Items(aws_vars)[i], "=", Format(aws_vars[Items(aws_vars)[i]]), ";">>]

\* C3: every run of main does exactly one of two things: with -e it prints
\* the two unset lines and one export line per session_vars entry and starts
\* no child; without -e it starts the child exactly once and prints nothing.
C3_ExactlyOneOfExportOrRun ==
    Terminated =>
        IF args.export
        THEN stdout = ExpectedExportLines /\ children = << >>
        ELSE Len(children) = 1 /\ stdout = << >>

\* C4: every value of the mapping session_vars returns is a string, also
\* when the profile's scoped config has no region entry.
C4_SessionVarsValuesAreStrings ==
    credsResolved => \A n \in DOMAIN aws_vars : IsStr(aws_vars[n])

TokenKeys == {"AWS_SECURITY_TOKEN", "AWS_SESSION_TOKEN"}

\* C5: session_vars exports the token under at most one name: with a
\* non-empty token, AWS_SECURITY_TOKEN alone iff AWS_TOKEN_TYPE is 'security'
\* and AWS_SESSION_TOKEN alone otherwise; without a token neither; and the
\* region, access key and secret key entries are always there.
C5_TokenUnderOneName ==
    credsResolved =>
        /\ {"AWS_DEFAULT_REGION", "AWS_REGION", "AWS_ACCESS_KEY_ID",
            "AWS_SECRET_ACCESS_KEY"} \subseteq DOMAIN aws_vars
        /\ (DOMAIN aws_vars) \cap TokenKeys =
              IF session.creds.token \in {None, Str("")} THEN {}
              ELSE IF "AWS_TOKEN_TYPE" \in DOMAIN environ
                      /\ environ["AWS_TOKEN_TYPE"] = Str("security")
                   THEN {"AWS_SECURITY_TOKEN"}
                   ELSE {"AWS_SESSION_TOKEN"}
        /\ \A n \in (DOMAIN aws_vars) \cap TokenKeys :
              aws_vars[n] = session.creds.token

\* session_vars has returned a security token, with AWS_TOKEN_TYPE=security
C5_Witness ==
    /\ credsResolved
    /\ Get(environ, "AWS_TOKEN_TYPE") = Str("security")
    /\ "AWS_SECURITY_TOKEN" \in DOMAIN aws_vars
    /\ "AWS_SESSION_TOKEN" \notin DOMAIN aws_vars

\* position of the first occurrence of call c in the log, 0 when absent
At(c) ==
    IF \E k \in 1 .. Len(log) : log[k] = c
    THEN CHOOSE k \in 1 .. Len(log) : log[k] = c /\ \A j \in 1 .. (k - 1) : log[j] # c
    ELSE 0

\* C6: main runs in one order: parse_args, then the Session is constructed,
\* then the provider's cache becomes a FixedJSONFileCache, and only then are
\* credentials resolved; nothing is printed and no child is started before
\* the credentials have been resolved.
C6_FixedOrder ==
    /\ At("Session") > 0 => 0 < At("parse_args") /\ At("parse_args") < At("Session")
    /\ At("configure_cache") > 0 =>
          0 < At("Session") /\ At("Session") < At("configure_cache")
    /\ At("get_credentials") > 0 =>
          /\ 0 < At("configure_cache") /\ At("configure_cache") < At("get_credentials")
          /\ providerCache = "FixedJSONFileCache"
    /\ (stdout # << >> \/ children # << >> \/ At("print") > 0 \/ At("Popen") > 0) =>
          /\ credsResolved
          /\ At("get_credentials") > 0
          /\ At("print") = 0 \/ At("get_credentials") < At("print")
          /\ At("Popen") = 0 \/ At("get_credentials") < At("Popen")

\* a run that resolved credentials and then started its child
C6_Witness ==
    /\ log = <<"parse_args", "Session", "configure_cache", "get_credentials", "Popen">>
    /\ Len(children) = 1

\* C9: in run mode the tool exits with the child's exit status, for every
\* child exit code 0..255.
C9_ExitsWithChildStatus ==
    (pc = "exited" /\ ~args.export /\ returncode \in 0 .. 255) =>
        exitCode = returncode

----------------------------------------------------------------------------
(* Properties of FixedJSONFileCache.__setitem__ *)

C8_FileIsLastValue ==
    \A k \in CacheKeys : \A p \in Writers :
        (/\ touched[k] = {p}
         /\ ~(InCall(p) /\ w[p].key = k)
         /\ lastWrite[k].value # None)
        => /\ k \in DOMAIN files
           /\ files[k] = Dumps(lastWrite[k].value).text

\* one process has written a long text and then a shorter one to a key
C8_Witness ==
    \E k \in CacheKeys : \E p \in Writers :
        /\ touched[k] = {p}
        /\ ~InCall(p)
        /\ lastWrite[k].value = ShortValue
        /\ lastWrite[k].longest > Len(Dumps(ShortValue).text)
        /\ files[k] = Dumps(ShortValue).text

\* C10: when two invocations run __setitem__ concurrently on one key, the
\* file, once both have finished, holds exactly one writer's complete JSON
\* text, never a mix of both.
C10_NoMixedContent ==
    (\A p \in Writers : ~InCall(p)) =>
        \A k \in CacheKeys : written[k] # {} => files[k] \in written[k]

====
